---- MODULE Spec2Model ----
(***************************************************************************)
(* A model of the fastapi-docker-app services: the retrying describer, the *)
(* key-pair and security-group provisioners, the instance orchestrator and *)
(* the two HTTP endpoints with the client dependency, run by one request   *)
(* thread (and, for the races, a second suspended one) against one         *)
(* provider account.  Each action is one awaited provider call (or one     *)
(* synchronous step) of the Python code together with the Python that      *)
(* follows it up to the next await.                                        *)
(***************************************************************************)
EXTENDS Integers, Sequences, FiniteSets, TLC

(* ------------------------------ bounds -------------------------------- *)

\* Largest max_attempts a direct caller of the describer passes.
MaxAttemptsArg == 5
\* Largest initial_delay (in whole time units) a direct caller passes.
MaxDelayArg == 2
\* Operations one run of the request thread performs one after the other.
MaxOps == 2
\* Requests the orchestrator and the endpoints serve one after the other.
MaxRequests == 1
\* Largest min_count and max_count a request carries.
MaxCountArg == 2
\* HTTP requests the server handles one after the other.
MaxHttpRequests == 2

(* ------------------------- program constants -------------------------- *)

\* describe_instances_with_retry(..., max_attempts: int = 5, ...)
DefaultMaxAttempts == 5
\* describe_instances_with_retry(..., initial_delay: float = 1.0)
DefaultInitialDelay == 1

(* ----------------------------- value sets ----------------------------- *)

KeyNames == {"k1", "k2"}
GroupNames == {"web", "db"}
Descriptions == {"first", "second"}
\* Ingress rules in the provider's IpPermissions form.
Ssh == [IpProtocol |-> "tcp", FromPort |-> 22, ToPort |-> 22, IpRanges |-> << [CidrIp |-> "0.0.0.0/0"] >>]
Http == [IpProtocol |-> "tcp", FromPort |-> 80, ToPort |-> 80, IpRanges |-> << [CidrIp |-> "0.0.0.0/0"] >>]
RuleLists == {<<Ssh>>, <<Http>>, <<Ssh, Http>>}
InstanceIds == {"i-1", "i-2"}
GroupIdPool == <<"sg-1", "sg-2", "sg-3">>
DefaultGroupId == "sg-0"

\* The exceptions a provider call can raise, by their Python class.
ProviderErrors == {"NoCredentialsError", "ClientError", "EndpointConnectionError"}

Range(s) == {s[i] : i \in 1..Len(s)}

VARIABLES
    keyPairs,    \* provider: the registered key-pair names
    secGroups,   \* provider: the security groups, in describe order
    instances,   \* provider: instance id -> [state, groups]
    files,       \* local disk: file name -> [content, mode]
    pc,          \* the request thread's position
    op,          \* the operation the thread was asked to run, with its arguments
    loc,         \* the locals of the running service function
    dr,          \* the locals of describe_instances_with_retry
    kp,          \* the locals of create_keypair
    result,      \* how the operation ended: returned value or raised exception
    calls,       \* history: the provider calls of the running operation, in order
    sleeps,      \* history: the asyncio.sleep durations of the running operation
    ops,         \* history: the finished operations, in order
    clients,     \* the EC2 clients get_ec2_client has yielded, by request, open or closed
    other        \* the frame of the concurrent request, suspended at an await

provider == <<keyPairs, secGroups, instances, files>>
vars == <<keyPairs, secGroups, instances, files, pc, op, loc, dr, kp, result, calls, sleeps, ops, clients, other>>

NoResult == [kind |-> "none"]
Returned(v) == [kind |-> "return", val |-> v]
Raised(e) == [kind |-> "raise", exc |-> e]

\* A non-HTTP exception object, and fastapi.HTTPException(status_code, detail).
Exc(type) == [type |-> type, status |-> 0, detail |-> ""]
HTTPException(status, detail) == [type |-> "HTTPException", status |-> status, detail |-> detail]

\* One entry of the call history: the API called, its argument, and what came
\* back (a response is kept only by its class unless the caller uses it).
Call(api, arg, out) == [api |-> api, arg |-> arg, out |-> out]

\* The calls of the running operation that change the provider or the disk.
MutatingApis == {"create_key_pair", "write_file", "chmod", "create_security_group",
                 "authorize_security_group_ingress", "modify_instance_attribute",
                 "run_instances", "terminate_instances"}
Mutations == SelectSeq(calls, LAMBDA c : c.api \in MutatingApis)

CallsOf(api) == {i \in 1..Len(calls) : calls[i].api = api}

(* ------------------------------ provider ------------------------------ *)

\* What describe_instances reports of one instance.
InstanceDescription(id) ==
    [InstanceId |-> id,
     SecurityGroups |-> [i \in 1..Len(instances[id].groups) |-> [GroupId |-> instances[id].groups[i]]]]

\* The responses describe_instances(InstanceIds=ids) can give: the full
\* description, or, while the instances are not yet describable, a response
\* without the expected nested data.
DescribeInstancesResponses(ids) ==
    {[ResponseMetadata |-> "ok"],
     [Reservations |-> <<>>],
     [Reservations |-> << [Instances |-> <<>>] >>],
     [Reservations |-> << [OwnerId |-> "acct"] >>]}
    \cup
    (IF \A i \in 1..Len(ids) : ids[i] \in DOMAIN instances /\ instances[ids[i]].state # "none"
     THEN {[Reservations |-> << [Instances |-> [i \in 1..Len(ids) |-> InstanceDescription(ids[i])]] >>]}
     ELSE {})

(* ------------------------- Retrying Describer ------------------------- *)

\* response.get('Reservations') and response['Reservations'][0].get('Instances')
HasInstanceData(response) ==
    /\ "Reservations" \in DOMAIN response
    /\ Len(response.Reservations) > 0
    /\ "Instances" \in DOMAIN response.Reservations[1]
    /\ Len(response.Reservations[1].Instances) > 0

\* delay *= 2
NextDelayLinear(delay) == delay + 1
NextDelay(delay) == delay * 2

\* while attempt < max_attempts
MayAttemptOffByOne(d) == d.attempt <= d.max_attempts
MayAttempt(d) == d.attempt < d.max_attempts

\* if attempt >= max_attempts (after attempt += 1)
AttemptsExhaustedLate(d) == d.attempt > d.max_attempts
AttemptsExhausted(d) == d.attempt >= d.max_attempts

\* The describer's frame on entry.
DescriberFrame(ids, max_attempts, initial_delay) ==
    [instance_ids |-> ids, max_attempts |-> max_attempts,
     initial_delay |-> initial_delay, delay |-> initial_delay, attempt |-> 0]

\* What one describe_instances call of the describer yields: a response or a
\* raised provider error.
DescribeOutcomes(ids) ==
    {Returned(r) : r \in DescribeInstancesResponses(ids)} \cup {Raised(Exc(e)) : e \in ProviderErrors}

\* The exception the except clause sees for an outcome without usable data.
AttemptError(out) ==
    IF out.kind = "raise" THEN out.exc ELSE Exc("ValueError")

Usable(out) == out.kind = "return" /\ HasInstanceData(out.val)

\* The history keeps a response without instance data by its class only.
Logged(out) == IF out.kind = "return" /\ ~HasInstanceData(out.val) THEN [kind |-> "nodata"] ELSE out

\* The describer hands its result to whoever called it: the request thread
\* itself, or attach_security_group.
DescriberEnds(res) ==
    IF op.name = "describe_instances_with_retry"
    THEN /\ pc' = "done"
         /\ result' = res
         /\ UNCHANGED loc
    ELSE /\ pc' = "attach_described"
         /\ loc' = [loc EXCEPT !.described = res]
         /\ UNCHANGED result

\* A direct call of describe_instances_with_retry.
CallDescriber ==
    /\ pc = "idle"
    /\ \E ids \in {<<i>> : i \in InstanceIds}, m \in -1..MaxAttemptsArg, d \in 1..MaxDelayArg :
         /\ op' = [name |-> "describe_instances_with_retry", instance_ids |-> ids,
                   max_attempts |-> m, initial_delay |-> d]
         /\ dr' = DescriberFrame(ids, m, d)
    /\ pc' = "describe"
    /\ UNCHANGED <<provider, loc, kp, result, calls, sleeps, ops, clients, other>>

\* The while condition is false: the function falls off its end, returning None.
DescribeFallThrough ==
    /\ pc = "describe"
    /\ ~MayAttempt(dr)
    /\ DescriberEnds(Returned("None"))
    /\ UNCHANGED <<provider, op, dr, kp, calls, sleeps, ops, clients, other>>

\* An attempt whose response holds the instance data: return it.
DescribeSucceeds ==
    /\ pc = "describe"
    /\ MayAttempt(dr)
    /\ \E out \in DescribeOutcomes(dr.instance_ids) :
         /\ Usable(out)
         /\ calls' = Append(calls, Call("describe_instances", dr.instance_ids, Logged(out)))
         /\ DescriberEnds(out)
    /\ UNCHANGED <<provider, op, dr, kp, sleeps, ops, clients, other>>

\* A failed attempt that is not the last: sleep, double the delay, loop.
DescribeRetries ==
    /\ pc = "describe"
    /\ MayAttempt(dr)
    /\ \E out \in DescribeOutcomes(dr.instance_ids) :
         /\ ~Usable(out)
         /\ ~AttemptsExhausted([dr EXCEPT !.attempt = @ + 1])
         /\ calls' = Append(calls, Call("describe_instances", dr.instance_ids, Logged(out)))
    /\ sleeps' = Append(sleeps, dr.delay)
    /\ dr' = [dr EXCEPT !.attempt = @ + 1, !.delay = NextDelay(@)]
    /\ UNCHANGED <<provider, pc, op, loc, kp, result, ops, clients, other>>

\* The last failed attempt: raise its error, without sleeping.
DescribeGivesUp ==
    /\ pc = "describe"
    /\ MayAttempt(dr)
    /\ \E out \in DescribeOutcomes(dr.instance_ids) :
         /\ ~Usable(out)
         /\ AttemptsExhausted([dr EXCEPT !.attempt = @ + 1])
         /\ calls' = Append(calls, Call("describe_instances", dr.instance_ids, Logged(out)))
         /\ DescriberEnds(Raised(AttemptError(out)))
    /\ dr' = [dr EXCEPT !.attempt = @ + 1]
    /\ UNCHANGED <<provider, op, kp, sleeps, ops, clients, other>>

Describer == DescribeFallThrough \/ DescribeSucceeds \/ DescribeRetries \/ DescribeGivesUp

(* ------------------------ Key Pair Provisioner ------------------------ *)

\* The errors the exception clauses tell apart, and the rest.
\* except NoCredentialsError / except ClientError / except Exception
MapErrorGeneric(e) == HTTPException(500, "Unexpected error")
MapError(e) ==
    IF e.type = "NoCredentialsError" THEN HTTPException(400, "AWS credentials error")
    ELSE IF e.type = "ClientError" THEN HTTPException(400, "AWS client error")
    ELSE HTTPException(500, "Unexpected error")

\* InstanceResponse(instance_ids=..., status=...), and what the endpoint's
\* caller gets when the endpoint raises: an HTTPException's status and detail,
\* a plain 500 for any other exception.
Endpoints == {"api_create_instance", "api_terminate_instance"}
EndpointResponse(endpoint, res) ==
    IF res.kind = "return"
    THEN Returned([status_code |-> 200, instance_ids |-> res.val,
                   status |-> IF endpoint = "api_create_instance" THEN "running" ELSE "terminated"])
    ELSE IF res.exc.type = "HTTPException"
    THEN Returned([status_code |-> res.exc.status, detail |-> res.exc.detail])
    ELSE Returned([status_code |-> 500, detail |-> "Internal Server Error"])

\* create_instance and terminate_instance hand their result to the request
\* thread, or to the endpoint that awaited them.
ServiceResult(res) == IF op.name \in Endpoints THEN EndpointResponse(op.name, res) ELSE res

\* filename = f"{key_name}.pem"
PemFile(key_name) == <<key_name, ".pem">>

\* The private key the provider generates for a new key pair.
KeyMaterial(key_name) == <<"PRIVATE KEY", key_name>>

\* describe_key_pairs: the response, or a provider error.
DescribeKeyPairsOutcomes ==
    {Returned([KeyPairs |-> keyPairs])} \cup {Raised(Exc(e)) : e \in ProviderErrors}

\* existing_keys = [kp['KeyName'] for kp in key_pairs_response.get('KeyPairs', [])]
ExistingKeysNone(response) == {}
ExistingKeys(response) == IF "KeyPairs" \in DOMAIN response THEN response.KeyPairs ELSE {}

\* if key_name not in existing_keys
KeyMissingAlways(key_name, response) == TRUE
KeyMissing(key_name, response) == key_name \notin ExistingKeys(response)

\* create_key_pair(KeyName=key_name): the client refuses None before any
\* request is sent, the provider refuses a name it holds.
CreateKeyPairOutcomes(key_name) ==
    (IF key_name = "None"
     THEN {Raised(Exc("ParamValidationError"))}
     ELSE IF key_name \in keyPairs
     THEN {Raised(Exc("ClientError"))}
     ELSE {Returned([KeyName |-> key_name, KeyMaterial |-> KeyMaterial(key_name)])})
    \cup {Raised(Exc(e)) : e \in ProviderErrors}

\* The disk after open(filename, "w") and write(key_material), and after chmod.
WriteFile(fs, name, content) ==
    [f \in DOMAIN fs \cup {name} |-> IF f = name THEN [content |-> content, mode |-> 420] ELSE fs[f]]
ChmodSkipped(fs, name, mode) == fs
Chmod(fs, name, mode) == [fs EXCEPT ![name].mode = mode]

\* os.chmod(filename, 0o400)
OwnerReadOnly == 256

\* create_keypair hands its result to whoever called it: the request thread,
\* or create_instance, whose try block it runs in.
KeypairEndsSwallowing(res) ==
    IF op.name = "create_keypair"
    THEN /\ pc' = "done"
         /\ result' = res
         /\ UNCHANGED loc
    ELSE /\ pc' = "run_instances"
         /\ loc' = IF res.kind = "return"
                    THEN [loc EXCEPT !.key_name = res.val, !.params = [KeyName |-> res.val] @@ @]
                    ELSE loc
         /\ UNCHANGED result
KeypairEnds(res) ==
    IF op.name = "create_keypair"
    THEN /\ pc' = "done"
         /\ result' = res
         /\ UNCHANGED loc
    ELSE IF res.kind = "return"
    THEN /\ pc' = "run_instances"
         /\ loc' = [loc EXCEPT !.key_name = res.val,
                                !.params = [KeyName |-> res.val] @@ @]
         /\ UNCHANGED result
    ELSE /\ pc' = "done"
         /\ result' = ServiceResult(Raised(MapError(res.exc)))
         /\ UNCHANGED loc

\* A direct call of create_keypair.
CallCreateKeypair ==
    /\ pc = "idle"
    /\ Len(ops) < MaxOps
    /\ \E k \in KeyNames :
         /\ op' = [name |-> "create_keypair", key_name |-> k, registered |-> keyPairs]
         /\ kp' = [key_name |-> k]
    /\ pc' = "describe_key_pairs"
    /\ UNCHANGED <<provider, loc, dr, result, calls, sleeps, ops, clients, other>>

\* describe_key_pairs fails: the error leaves create_keypair.
KeypairListFails ==
    /\ pc = "describe_key_pairs"
    /\ \E out \in DescribeKeyPairsOutcomes :
         /\ out.kind = "raise"
         /\ calls' = Append(calls, Call("describe_key_pairs", "", out))
         /\ KeypairEnds(out)
    /\ UNCHANGED <<provider, op, dr, kp, sleeps, ops, clients, other>>

\* The name is listed: reuse it, nothing is created or written.
KeypairReused ==
    /\ pc = "describe_key_pairs"
    /\ \E out \in DescribeKeyPairsOutcomes :
         /\ out.kind = "return"
         /\ ~KeyMissing(kp.key_name, out.val)
         /\ calls' = Append(calls, Call("describe_key_pairs", "", out))
         /\ KeypairEnds(Returned(kp.key_name))
    /\ UNCHANGED <<provider, op, dr, kp, sleeps, ops, clients, other>>

\* The name is not listed: go on to create it.
KeypairMissing ==
    /\ pc = "describe_key_pairs"
    /\ \E out \in DescribeKeyPairsOutcomes :
         /\ out.kind = "return"
         /\ KeyMissing(kp.key_name, out.val)
         /\ calls' = Append(calls, Call("describe_key_pairs", "", out))
    /\ pc' = "create_key_pair"
    /\ UNCHANGED <<provider, op, loc, dr, kp, result, sleeps, ops, clients, other>>

\* create_key_pair fails: nothing is written.
KeypairCreateFails ==
    /\ pc = "create_key_pair"
    /\ \E out \in CreateKeyPairOutcomes(kp.key_name) :
         /\ out.kind = "raise"
         /\ calls' = Append(calls, Call("create_key_pair", kp.key_name, out))
         /\ KeypairEnds(out)
    /\ UNCHANGED <<provider, op, dr, kp, sleeps, ops, clients, other>>

\* create_key_pair succeeds, the key is written to {key_name}.pem and the
\* file made read-only for its owner: return the name.
KeypairCreated ==
    /\ pc = "create_key_pair"
    /\ \E out \in CreateKeyPairOutcomes(kp.key_name) :
         /\ out.kind = "return"
         /\ keyPairs' = keyPairs \cup {kp.key_name}
         /\ files' = Chmod(WriteFile(files, PemFile(kp.key_name), out.val.KeyMaterial),
                            PemFile(kp.key_name), OwnerReadOnly)
         /\ calls' = calls \o << Call("create_key_pair", kp.key_name, out),
                                  Call("write_file", PemFile(kp.key_name), Returned(out.val.KeyMaterial)),
                                  Call("chmod", PemFile(kp.key_name), Returned(OwnerReadOnly)) >>
         /\ KeypairEnds(Returned(kp.key_name))
    /\ UNCHANGED <<secGroups, instances, op, dr, kp, sleeps, ops, clients, other>>

\* create_key_pair succeeds and the write fails: the key pair stays, the file
\* may have been created empty, the error leaves create_keypair.
KeypairWriteFails ==
    /\ pc = "create_key_pair"
    /\ \E out \in CreateKeyPairOutcomes(kp.key_name), created \in BOOLEAN :
         /\ out.kind = "return"
         /\ keyPairs' = keyPairs \cup {kp.key_name}
         /\ files' = IF created /\ PemFile(kp.key_name) \notin DOMAIN files
                      THEN WriteFile(files, PemFile(kp.key_name), <<>>)
                      ELSE files
         /\ calls' = calls \o << Call("create_key_pair", kp.key_name, out),
                                  Call("write_file", PemFile(kp.key_name), Raised(Exc("OSError"))) >>
         /\ KeypairEnds(Raised(Exc("OSError")))
    /\ UNCHANGED <<secGroups, instances, op, dr, kp, sleeps, ops, clients, other>>

\* The write succeeds and the chmod fails: the file keeps its default mode.
KeypairChmodFails ==
    /\ pc = "create_key_pair"
    /\ \E out \in CreateKeyPairOutcomes(kp.key_name) :
         /\ out.kind = "return"
         /\ keyPairs' = keyPairs \cup {kp.key_name}
         /\ files' = WriteFile(files, PemFile(kp.key_name), out.val.KeyMaterial)
         /\ calls' = calls \o << Call("create_key_pair", kp.key_name, out),
                                  Call("write_file", PemFile(kp.key_name), Returned(out.val.KeyMaterial)),
                                  Call("chmod", PemFile(kp.key_name), Raised(Exc("OSError"))) >>
         /\ KeypairEnds(Raised(Exc("OSError")))
    /\ UNCHANGED <<secGroups, instances, op, dr, kp, sleeps, ops, clients, other>>

Keypair ==
    \/ KeypairListFails \/ KeypairReused \/ KeypairMissing
    \/ KeypairCreateFails \/ KeypairCreated \/ KeypairWriteFails \/ KeypairChmodFails

(* --------------------- Security Group Provisioner --------------------- *)

\* Python values whose class decides an equality: a list never equals a dict.
PyList(items) == [class |-> "list", v |-> items]
PyDict(d) == [class |-> "dict", v |-> d]
PyEq(a, b) == a.class = b.class /\ a.v = b.v
\* x in lst
PyIn(x, lst) == \E i \in 1..Len(lst) : PyEq(x, lst[i])

\* describe_security_groups: the response, or a provider error.
DescribeSecurityGroupsOutcomes ==
    {Returned([SecurityGroups |-> secGroups])} \cup {Raised(Exc(e)) : e \in ProviderErrors}

GroupIdsInUse == {secGroups[i].GroupId : i \in 1..Len(secGroups)} \cup {DefaultGroupId}
FreshGroupIds == {i \in 1..Len(GroupIdPool) : GroupIdPool[i] \notin GroupIdsInUse}

\* create_security_group(GroupName, Description): the provider refuses a name
\* it holds and gives a new group an unused id.
CreateSecurityGroupOutcomes(group_name) ==
    (IF \/ \E i \in 1..Len(secGroups) : secGroups[i].GroupName = group_name
        \/ FreshGroupIds = {}
     THEN {Raised(Exc("ClientError"))}
     ELSE {Returned([GroupId |-> GroupIdPool[CHOOSE i \in FreshGroupIds : \A k \in FreshGroupIds : i <= k]])})
    \cup {Raised(Exc(e)) : e \in ProviderErrors}

\* existing_sg_names = [sg['GroupName'] for sg in ...get('SecurityGroups', [])]
\* if group_name not in existing_sg_names
GroupMissingAlways(group_name, response) == TRUE
GroupMissing(group_name, response) ==
    \A i \in 1..Len(response.SecurityGroups) : response.SecurityGroups[i].GroupName # group_name

\* next((sg['GroupId'] for sg in ... if group_name == sg["GroupName"]), None)
GroupIdNamedLast(group_name, response) ==
    LET hits == {i \in 1..Len(response.SecurityGroups) : response.SecurityGroups[i].GroupName = group_name}
    IN  IF hits = {} THEN "None"
        ELSE response.SecurityGroups[CHOOSE i \in hits : \A k \in hits : i >= k].GroupId
GroupIdNamed(group_name, response) ==
    LET hits == {i \in 1..Len(response.SecurityGroups) : response.SecurityGroups[i].GroupName = group_name}
    IN  IF hits = {} THEN "None"
        ELSE response.SecurityGroups[CHOOSE i \in hits : \A k \in hits : i <= k].GroupId

\* A direct call of create_security_group.
CallCreateSecurityGroup ==
    /\ pc = "idle"
    /\ Len(ops) < MaxOps
    /\ \E n \in GroupNames, d \in Descriptions :
         /\ op' = [name |-> "create_security_group", group_name |-> n,
                   group_description |-> d, existing |-> secGroups]
         /\ loc' = [group_name |-> n, group_description |-> d]
    /\ pc' = "csg_describe"
    /\ UNCHANGED <<provider, dr, kp, result, calls, sleeps, ops, clients, other>>

\* describe_security_groups fails: the except clauses turn the error into an
\* HTTPException.
GroupListFails ==
    /\ pc = "csg_describe"
    /\ \E out \in DescribeSecurityGroupsOutcomes :
         /\ out.kind = "raise"
         /\ calls' = Append(calls, Call("describe_security_groups", "", out))
         /\ result' = Raised(MapError(out.exc))
    /\ pc' = "done"
    /\ UNCHANGED <<provider, op, loc, dr, kp, sleeps, ops, clients, other>>

\* The name is listed: return the listed group's id.
GroupReused ==
    /\ pc = "csg_describe"
    /\ \E out \in DescribeSecurityGroupsOutcomes :
         /\ out.kind = "return"
         /\ ~GroupMissing(loc.group_name, out.val)
         /\ calls' = Append(calls, Call("describe_security_groups", "", [kind |-> "return"]))
         /\ result' = Returned(GroupIdNamed(loc.group_name, out.val))
    /\ pc' = "done"
    /\ UNCHANGED <<provider, op, loc, dr, kp, sleeps, ops, clients, other>>

\* The name is not listed: go on to create the group.
GroupIsMissing ==
    /\ pc = "csg_describe"
    /\ \E out \in DescribeSecurityGroupsOutcomes :
         /\ out.kind = "return"
         /\ GroupMissing(loc.group_name, out.val)
         /\ calls' = Append(calls, Call("describe_security_groups", "", [kind |-> "return"]))
    /\ pc' = "csg_create"
    /\ UNCHANGED <<provider, op, loc, dr, kp, result, sleeps, ops, clients, other>>

\* create_security_group fails.
GroupCreateFails ==
    /\ pc = "csg_create"
    /\ \E out \in CreateSecurityGroupOutcomes(loc.group_name) :
         /\ out.kind = "raise"
         /\ calls' = Append(calls, Call("create_security_group", loc.group_name, out))
         /\ result' = Raised(MapError(out.exc))
    /\ pc' = "done"
    /\ UNCHANGED <<provider, op, loc, dr, kp, sleeps, ops, clients, other>>

\* create_security_group succeeds: return the new group's id.
GroupCreated ==
    /\ pc = "csg_create"
    /\ \E out \in CreateSecurityGroupOutcomes(loc.group_name) :
         /\ out.kind = "return"
         /\ secGroups' = Append(secGroups, [GroupName |-> loc.group_name, GroupId |-> out.val.GroupId,
                                            Description |-> loc.group_description, IpPermissions |-> <<>>])
         /\ calls' = Append(calls, Call("create_security_group", loc.group_name, out))
         /\ result' = Returned(out.val.GroupId)
    /\ pc' = "done"
    /\ UNCHANGED <<keyPairs, instances, files, op, loc, dr, kp, sleeps, ops, clients, other>>

CreateSecurityGroup ==
    GroupListFails \/ GroupReused \/ GroupIsMissing \/ GroupCreateFails \/ GroupCreated

\* existing_sg_id = [sg['GroupId'] for sg in ...get('SecurityGroups', [])]
ListedGroupIds(response) == {response.SecurityGroups[i].GroupId : i \in 1..Len(response.SecurityGroups)}

\* next((sg['IpPermissions'] for sg in ... if group_id == sg['GroupId']), None)
ListedPermissions(group_id, response) ==
    LET hits == {i \in 1..Len(response.SecurityGroups) : response.SecurityGroups[i].GroupId = group_id}
    IN  IF hits = {} THEN "None"
        ELSE response.SecurityGroups[CHOOSE i \in hits : \A k \in hits : i <= k].IpPermissions

\* (group_id in existing_sg_id and ip_permissions not in existing_ip_permissions)
\*     or group_id not in existing_sg_id
\* ip_permissions is a list, the elements of existing_ip_permissions are dicts.
NeedsAuthorizeKnownOnly(group_id, ip_permissions, response) ==
    group_id \in ListedGroupIds(response)
NeedsAuthorize(group_id, ip_permissions, response) ==
    LET existing == ListedPermissions(group_id, response)
    IN  \/ /\ group_id \in ListedGroupIds(response)
           /\ ~PyIn(PyList(ip_permissions), [i \in 1..Len(existing) |-> PyDict(existing[i])])
        \/ group_id \notin ListedGroupIds(response)

\* authorize_security_group_ingress: the provider refuses an unknown group and
\* a rule the group already has.
AuthorizeIngressOutcomes(group_id, ip_permissions) ==
    (IF \/ \A i \in 1..Len(secGroups) : secGroups[i].GroupId # group_id
        \/ \E i \in 1..Len(secGroups) :
              /\ secGroups[i].GroupId = group_id
              /\ Range(secGroups[i].IpPermissions) \cap Range(ip_permissions) # {}
     THEN {Raised(Exc("ClientError"))}
     ELSE {Returned([Return |-> TRUE, SecurityGroupRules |-> ip_permissions])})
    \cup {Raised(Exc(e)) : e \in ProviderErrors}

\* A direct call of authorize_ingress.
CallAuthorizeIngress ==
    /\ pc = "idle"
    /\ Len(ops) < MaxOps
    /\ \E g \in {GroupIdPool[1], GroupIdPool[2]}, r \in RuleLists :
         /\ op' = [name |-> "authorize_ingress", group_id |-> g, ip_permissions |-> r,
                   existing |-> secGroups]
         /\ loc' = [group_id |-> g, ip_permissions |-> r]
    /\ pc' = "authz_describe"
    /\ UNCHANGED <<provider, dr, kp, result, calls, sleeps, ops, clients, other>>

\* The first describe_security_groups fails.
AuthzListFails ==
    /\ pc = "authz_describe"
    /\ \E out \in DescribeSecurityGroupsOutcomes :
         /\ out.kind = "raise"
         /\ calls' = Append(calls, Call("describe_security_groups", "", out))
         /\ result' = Raised(MapError(out.exc))
    /\ pc' = "done"
    /\ UNCHANGED <<provider, op, loc, dr, kp, sleeps, ops, clients, other>>

\* The groups are listed: either go on to authorize, or keep the group's
\* listed rules as the value to return.
AuthzListed ==
    /\ pc = "authz_describe"
    /\ \E out \in DescribeSecurityGroupsOutcomes :
         /\ out.kind = "return"
         /\ calls' = Append(calls, Call("describe_security_groups", "", [kind |-> "return"]))
         /\ IF NeedsAuthorize(loc.group_id, loc.ip_permissions, out.val)
            THEN /\ pc' = "authz_authorize"
                 /\ UNCHANGED loc
            ELSE /\ pc' = "authz_redescribe"
                 /\ loc' = [authorized_ingress |-> ListedPermissions(loc.group_id, out.val)] @@ loc
    /\ UNCHANGED <<provider, op, dr, kp, result, sleeps, ops, clients, other>>

\* authorize_security_group_ingress fails.
AuthzAuthorizeFails ==
    /\ pc = "authz_authorize"
    /\ \E out \in AuthorizeIngressOutcomes(loc.group_id, loc.ip_permissions) :
         /\ out.kind = "raise"
         /\ calls' = Append(calls, Call("authorize_security_group_ingress",
                                         [GroupId |-> loc.group_id, IpPermissions |-> loc.ip_permissions], out))
         /\ result' = Raised(MapError(out.exc))
    /\ pc' = "done"
    /\ UNCHANGED <<provider, op, loc, dr, kp, sleeps, ops, clients, other>>

\* authorize_security_group_ingress succeeds: the group gains the rules.
AuthzAuthorized ==
    /\ pc = "authz_authorize"
    /\ \E out \in AuthorizeIngressOutcomes(loc.group_id, loc.ip_permissions) :
         /\ out.kind = "return"
         /\ secGroups' = [i \in 1..Len(secGroups) |->
                            IF secGroups[i].GroupId = loc.group_id
                            THEN [secGroups[i] EXCEPT !.IpPermissions = @ \o loc.ip_permissions]
                            ELSE secGroups[i]]
         /\ calls' = Append(calls, Call("authorize_security_group_ingress",
                                         [GroupId |-> loc.group_id, IpPermissions |-> loc.ip_permissions], out))
         /\ loc' = [authorized_ingress |-> out.val] @@ loc
    /\ pc' = "authz_redescribe"
    /\ UNCHANGED <<keyPairs, instances, files, op, dr, kp, result, sleeps, ops, clients, other>>

\* The second describe_security_groups (read for the log only) fails.
AuthzRelistFails ==
    /\ pc = "authz_redescribe"
    /\ \E out \in DescribeSecurityGroupsOutcomes :
         /\ out.kind = "raise"
         /\ calls' = Append(calls, Call("describe_security_groups", "", out))
         /\ result' = Raised(MapError(out.exc))
    /\ pc' = "done"
    /\ UNCHANGED <<provider, op, loc, dr, kp, sleeps, ops, clients, other>>

\* The second describe_security_groups succeeds: return authorized_ingress.
AuthzReturns ==
    /\ pc = "authz_redescribe"
    /\ \E out \in DescribeSecurityGroupsOutcomes :
         /\ out.kind = "return"
         /\ calls' = Append(calls, Call("describe_security_groups", "", [kind |-> "return"]))
    /\ result' = Returned(loc.authorized_ingress)
    /\ pc' = "done"
    /\ UNCHANGED <<provider, op, loc, dr, kp, sleeps, ops, clients, other>>

AuthorizeIngress ==
    \/ AuthzListFails \/ AuthzListed \/ AuthzAuthorizeFails \/ AuthzAuthorized
    \/ AuthzRelistFails \/ AuthzReturns

\* current_sg_ids = [sg['GroupId'] for sg in instance['SecurityGroups']]
CurrentGroupIds(response) ==
    LET instance == response.Reservations[1].Instances[1]
    IN  [i \in 1..Len(instance.SecurityGroups) |-> instance.SecurityGroups[i].GroupId]

\* if group_id not in current_sg_ids: current_sg_ids.append(group_id)
GroupsToSubmitReplacing(group_id, current_sg_ids) == <<group_id>>
GroupsToSubmit(group_id, current_sg_ids) ==
    IF group_id \in Range(current_sg_ids) THEN current_sg_ids ELSE Append(current_sg_ids, group_id)

\* modify_instance_attribute(InstanceId, Groups): the provider refuses an
\* instance it does not hold, an empty list and an unknown group.
ModifyGroupsOutcomes(instance_id, groups) ==
    (IF \/ instances[instance_id].state \in {"none", "terminated"}
        \/ groups = <<>>
        \/ ~(Range(groups) \subseteq GroupIdsInUse)
     THEN {Raised(Exc("ClientError"))}
     ELSE {Returned([ResponseMetadata |-> "ok"])})
    \cup {Raised(Exc(e)) : e \in ProviderErrors}

\* A direct call of attach_security_group: it starts by calling the describer
\* with its default max_attempts and initial_delay.
CallAttachSecurityGroup ==
    /\ pc = "idle"
    /\ \E g \in {DefaultGroupId, GroupIdPool[1]}, i \in InstanceIds :
         /\ op' = [name |-> "attach_security_group", group_id |-> g, instance_id |-> i,
                   attached |-> instances[i].groups]
         /\ loc' = [group_id |-> g, instance_id |-> i, described |-> NoResult]
         /\ dr' = DescriberFrame(<<i>>, DefaultMaxAttempts, DefaultInitialDelay)
    /\ pc' = "describe"
    /\ UNCHANGED <<provider, kp, result, calls, sleeps, ops, clients, other>>

\* The describer raised: the except clauses turn its error into an HTTPException.
AttachDescribeFailed ==
    /\ pc = "attach_described"
    /\ loc.described.kind = "raise"
    /\ result' = Raised(MapError(loc.described.exc))
    /\ pc' = "done"
    /\ UNCHANGED <<provider, op, loc, dr, kp, calls, sleeps, ops, clients, other>>

\* modify_instance_attribute fails.
AttachModifyFails ==
    /\ pc = "attach_described"
    /\ loc.described.kind = "return"
    /\ LET groups == GroupsToSubmit(loc.group_id, CurrentGroupIds(loc.described.val))
       IN  \E out \in ModifyGroupsOutcomes(loc.instance_id, groups) :
             /\ out.kind = "raise"
             /\ calls' = Append(calls, Call("modify_instance_attribute",
                                             [InstanceId |-> loc.instance_id, Groups |-> groups], out))
             /\ result' = Raised(MapError(out.exc))
    /\ pc' = "done"
    /\ UNCHANGED <<provider, op, loc, dr, kp, sleeps, ops, clients, other>>

\* modify_instance_attribute succeeds: the instance's group list is replaced.
AttachModified ==
    /\ pc = "attach_described"
    /\ loc.described.kind = "return"
    /\ LET groups == GroupsToSubmit(loc.group_id, CurrentGroupIds(loc.described.val))
       IN  \E out \in ModifyGroupsOutcomes(loc.instance_id, groups) :
             /\ out.kind = "return"
             /\ instances' = [instances EXCEPT ![loc.instance_id].groups = groups]
             /\ calls' = Append(calls, Call("modify_instance_attribute",
                                             [InstanceId |-> loc.instance_id, Groups |-> groups], out))
             /\ result' = Returned(out.val)
    /\ pc' = "done"
    /\ UNCHANGED <<keyPairs, secGroups, files, op, loc, dr, kp, sleeps, ops, clients, other>>

AttachSecurityGroup == AttachDescribeFailed \/ AttachModifyFails \/ AttachModified

(* ------------------------ Instance Orchestrator ----------------------- *)

\* A run is that of the HTTP server, which serves requests through the
\* endpoints, or that of a caller of the service functions.
HttpServer == \E k \in 1..Len(ops) : ops[k].op.name \in {"api_create_instance", "api_terminate_instance", "get_ec2_client"}
DirectCaller == \E k \in 1..Len(ops) : ops[k].op.name \in {"create_instance", "terminate_instance"}

\* The image every request of the model names.
AmiId == "ami-02a53b0d62d37a757"

\* x or 1: Python takes 1 for a zero (or absent) count.
OrOne(x) == IF x = 0 THEN 1 ELSE x

\* params = {"ImageId", "MinCount": min_count or 1, "MaxCount": max_count or 1, "InstanceType"}
\* (first with a KeyName the caller did not ask for, which the code does not add).
LaunchParamsKeyed(ami_id, min_count, max_count) ==
    [ImageId |-> ami_id, MinCount |-> OrOne(min_count), MaxCount |-> OrOne(max_count),
     InstanceType |-> "t2.micro", KeyName |-> "None"]
LaunchParams(ami_id, min_count, max_count) ==
    [ImageId |-> ami_id, MinCount |-> OrOne(min_count), MaxCount |-> OrOne(max_count),
     InstanceType |-> "t2.micro"]

\* instance_ids = [instance.get('InstanceId') for instance in new_instances['Instances']]
InstanceIdsOfReversed(response) ==
    [i \in 1..Len(response.Instances) |-> response.Instances[Len(response.Instances) + 1 - i].InstanceId]
InstanceIdsOf(response) ==
    [i \in 1..Len(response.Instances) |-> response.Instances[i].InstanceId]

\* The sequences of n distinct elements of a set.
Arrangements(S, n) == {q \in [1..n -> S] : \A i, j \in 1..n : i # j => q[i] # q[j]}

FreeInstanceIds == {i \in InstanceIds : instances[i].state = "none"}

\* run_instances(**params): the provider refuses counts that are not
\* 1 <= MinCount <= MaxCount, a key pair it does not hold, and a MinCount
\* beyond what it can place; otherwise it launches between MinCount and
\* MaxCount instances, with ids of its choosing, in the order of its choosing.
RunInstancesOutcomes(params) ==
    (IF \/ params.MinCount < 1
        \/ params.MaxCount < params.MinCount
        \/ ("KeyName" \in DOMAIN params /\ params.KeyName \notin keyPairs)
        \/ Cardinality(FreeInstanceIds) < params.MinCount
     THEN {Raised(Exc("ClientError"))}
     ELSE {Returned([Instances |-> [i \in DOMAIN q |-> [InstanceId |-> q[i]]]]) :
              q \in UNION {Arrangements(FreeInstanceIds, n) : n \in params.MinCount..params.MaxCount}})
    \cup {Raised(Exc(e)) : e \in ProviderErrors}

\* The except clauses of terminate_instance: f"AWS client error: {e}".
MapErrorTerminate(e) ==
    IF e.type = "NoCredentialsError" THEN HTTPException(400, "AWS credentials error")
    ELSE IF e.type = "ClientError" THEN HTTPException(400, "AWS client error: ClientError")
    ELSE HTTPException(500, "Unexpected error")

\* A direct call of create_instance: build params, then either enter
\* create_keypair or go on to the launch.
CallCreateInstance ==
    /\ pc = "idle"
    /\ Len(ops) < MaxRequests
    /\ ~HttpServer
    /\ \E mn \in 0..MaxCountArg, mx \in 0..MaxCountArg,
          k \in {[create_key_pair |-> FALSE, key_name |-> "None"],
                 [create_key_pair |-> TRUE, key_name |-> "k1"],
                 [create_key_pair |-> TRUE, key_name |-> "None"]} :
         /\ op' = [name |-> "create_instance", ami_id |-> AmiId, min_count |-> mn, max_count |-> mx,
                   create_key_pair |-> k.create_key_pair, key_name |-> k.key_name]
         /\ loc' = [key_name |-> k.key_name, params |-> LaunchParams(AmiId, mn, mx)]
         /\ kp' = IF k.create_key_pair THEN [key_name |-> k.key_name] ELSE kp
         /\ pc' = IF k.create_key_pair THEN "describe_key_pairs" ELSE "run_instances"
    /\ UNCHANGED <<provider, dr, result, calls, sleeps, ops, clients, other>>

\* run_instances fails.
LaunchFails ==
    /\ pc = "run_instances"
    /\ \E out \in RunInstancesOutcomes(loc.params) :
         /\ out.kind = "raise"
         /\ calls' = Append(calls, Call("run_instances", loc.params, out))
         /\ result' = ServiceResult(Raised(MapError(out.exc)))
    /\ pc' = "done"
    /\ UNCHANGED <<provider, op, loc, dr, kp, sleeps, ops, clients, other>>

\* run_instances succeeds: the instances exist, pending, with the default
\* group; their ids are collected and the waiter is entered.
Launched ==
    /\ pc = "run_instances"
    /\ \E out \in RunInstancesOutcomes(loc.params) :
         /\ out.kind = "return"
         /\ instances' = [i \in InstanceIds |->
                            IF \E k \in 1..Len(out.val.Instances) : out.val.Instances[k].InstanceId = i
                            THEN [state |-> "pending", groups |-> <<DefaultGroupId>>]
                            ELSE instances[i]]
         /\ calls' = Append(calls, Call("run_instances", loc.params, out))
         /\ loc' = [instance_ids |-> InstanceIdsOf(out.val)] @@ loc
    /\ pc' = "wait_running"
    /\ UNCHANGED <<keyPairs, secGroups, files, op, dr, kp, result, sleeps, ops, clients, other>>

\* The provider moves an instance on: pending to running, shutting-down to
\* terminated.
InstanceProgress ==
    /\ pc \in {"wait_running", "wait_terminated"}
    /\ \E i \in InstanceIds :
         /\ instances[i].state \in {"pending", "shutting-down"}
         /\ instances' = [instances EXCEPT ![i].state = IF @ = "pending" THEN "running" ELSE "terminated"]
    /\ UNCHANGED <<keyPairs, secGroups, files, pc, op, loc, dr, kp, result, calls, sleeps, ops, clients, other>>

\* The instance_running waiter fails and the launched instances are
\* terminated before the error is raised: a variant the code does not have.
WaitRunningFailsRollingBack ==
    /\ pc = "wait_running"
    /\ \E e \in ProviderErrors \cup {"WaiterError"} :
         /\ calls' = calls \o << Call("wait_instance_running", loc.instance_ids, Raised(Exc(e))),
                                  Call("terminate_instances", loc.instance_ids, [kind |-> "return"]) >>
         /\ result' = ServiceResult(Raised(MapError(Exc(e))))
    /\ instances' = [i \in InstanceIds |->
                       IF i \in Range(loc.instance_ids)
                       THEN [instances[i] EXCEPT !.state = "shutting-down"]
                       ELSE instances[i]]
    /\ pc' = "done"
    /\ UNCHANGED <<keyPairs, secGroups, files, op, loc, dr, kp, sleeps, ops, clients, other>>

\* The instance_running waiter fails (a provider error, or the wait is given up).
WaitRunningFails ==
    /\ pc = "wait_running"
    /\ \E e \in ProviderErrors \cup {"WaiterError"} :
         /\ calls' = Append(calls, Call("wait_instance_running", loc.instance_ids, Raised(Exc(e))))
         /\ result' = ServiceResult(Raised(MapError(Exc(e))))
    /\ pc' = "done"
    /\ UNCHANGED <<provider, op, loc, dr, kp, sleeps, ops, clients, other>>

\* The instance_running waiter completes, all the instances running: return
\* the ids.
WaitRunningDone ==
    /\ pc = "wait_running"
    /\ \A k \in 1..Len(loc.instance_ids) : instances[loc.instance_ids[k]].state = "running"
    /\ calls' = Append(calls, Call("wait_instance_running", loc.instance_ids, [kind |-> "return"]))
    /\ result' = ServiceResult(Returned(loc.instance_ids))
    /\ pc' = "done"
    /\ UNCHANGED <<provider, op, loc, dr, kp, sleeps, ops, clients, other>>

CreateInstance == LaunchFails \/ Launched \/ WaitRunningFails \/ WaitRunningDone

\* terminate_instances(InstanceIds): the provider refuses an id it does not
\* hold; otherwise it reports the instances it is terminating, each once, in
\* its own order.
TerminateInstancesOutcomes(instance_ids) ==
    (IF \E k \in 1..Len(instance_ids) : instances[instance_ids[k]].state = "none"
     THEN {Raised(Exc("ClientError"))}
     ELSE {Returned([TerminatingInstances |-> q]) :
              q \in Arrangements(Range(instance_ids), Cardinality(Range(instance_ids)))})
    \cup {Raised(Exc(e)) : e \in ProviderErrors}

\* return instance_ids
TerminateReturnReported(instance_ids, response) == response.TerminatingInstances
TerminateReturn(instance_ids, response) == instance_ids

\* The id lists a caller passes: one or two ids, possibly twice the same.
InstanceIdLists == {<<i>> : i \in InstanceIds} \cup {<<i, j>> : i \in InstanceIds, j \in InstanceIds}

\* A direct call of terminate_instance.
CallTerminateInstance ==
    /\ pc = "idle"
    /\ Len(ops) < MaxRequests
    /\ ~HttpServer
    /\ \E ids \in InstanceIdLists :
         /\ op' = [name |-> "terminate_instance", instance_ids |-> ids]
         /\ loc' = [instance_ids |-> ids]
    /\ pc' = "terminate_instances"
    /\ UNCHANGED <<provider, dr, kp, result, calls, sleeps, ops, clients, other>>

\* terminate_instances fails.
TerminateFails ==
    /\ pc = "terminate_instances"
    /\ \E out \in TerminateInstancesOutcomes(loc.instance_ids) :
         /\ out.kind = "raise"
         /\ calls' = Append(calls, Call("terminate_instances", loc.instance_ids, out))
         /\ result' = ServiceResult(Raised(MapErrorTerminate(out.exc)))
    /\ pc' = "done"
    /\ UNCHANGED <<provider, op, loc, dr, kp, sleeps, ops, clients, other>>

\* terminate_instances succeeds: the instances are shutting down; its
\* response is kept by nobody, and the waiter is entered.
TerminateSubmitted ==
    /\ pc = "terminate_instances"
    /\ \E out \in TerminateInstancesOutcomes(loc.instance_ids) :
         /\ out.kind = "return"
         /\ instances' = [i \in InstanceIds |->
                            IF i \in Range(loc.instance_ids) /\ instances[i].state # "terminated"
                            THEN [instances[i] EXCEPT !.state = "shutting-down"]
                            ELSE instances[i]]
         /\ calls' = Append(calls, Call("terminate_instances", loc.instance_ids, out))
         /\ loc' = [returning |-> TerminateReturn(loc.instance_ids, out.val)] @@ loc
    /\ pc' = "wait_terminated"
    /\ UNCHANGED <<keyPairs, secGroups, files, op, dr, kp, result, sleeps, ops, clients, other>>

\* The instance_terminated waiter fails.
WaitTerminatedFails ==
    /\ pc = "wait_terminated"
    /\ \E e \in ProviderErrors \cup {"WaiterError"} :
         /\ calls' = Append(calls, Call("wait_instance_terminated", loc.instance_ids, Raised(Exc(e))))
         /\ result' = ServiceResult(Raised(MapErrorTerminate(Exc(e))))
    /\ pc' = "done"
    /\ UNCHANGED <<provider, op, loc, dr, kp, sleeps, ops, clients, other>>

\* The instance_terminated waiter completes, all the instances terminated:
\* return the ids.
WaitTerminatedDone ==
    /\ pc = "wait_terminated"
    /\ \A k \in 1..Len(loc.instance_ids) : instances[loc.instance_ids[k]].state = "terminated"
    /\ calls' = Append(calls, Call("wait_instance_terminated", loc.instance_ids, [kind |-> "return"]))
    /\ result' = ServiceResult(Returned(loc.returning))
    /\ pc' = "done"
    /\ UNCHANGED <<provider, op, loc, dr, kp, sleeps, ops, clients, other>>

TerminateInstance == TerminateFails \/ TerminateSubmitted \/ WaitTerminatedFails \/ WaitTerminatedDone

(* --------------------------- HTTP endpoints --------------------------- *)

\* get_ec2_client: "async with session.client("ec2") as client: yield client".
\* Every request gets a session and a client of its own.
YieldedClient == [request |-> Len(ops) + 1, state |-> "open"]

\* Leaving the "async with" block closes the client.
ClientAfterExitLeaked(client) == client
ClientAfterExit(client) == [client EXCEPT !.state = "closed"]

\* raise HTTPException(status_code=500, detail=f"Could not create EC2 client: {e}")
ClientFailureResponse == Returned([status_code |-> 500, detail |-> "Could not create EC2 client"])

\* class InstanceRequest(BaseModel): the fields the parsed body has.
InstanceRequestFields == {"ami_id", "min_count", "max_count", "create_key_pair", "key_name"}

\* The attributes of instance_req that api_create_instance reads, in order,
\* to build the positional arguments that follow ec2_client.
CreateInstanceArguments ==
    <<"ami_id", "min_count", "max_count", "create_key_pair", "key_name", "create_security_group",
      "security_group_name", "security_group_description", "security_group_rules">>

\* The parameters of create_instance that follow ec2_client.
CreateInstanceParameters == <<"ami_id", "min_count", "max_count", "create_key_pair", "key_name">>

\* Pydantic keeps the declared fields of the body and drops the others.
ParseInstanceRequest(body) == [f \in InstanceRequestFields |-> body[f]]

\* Reading the arguments off the parsed request, then binding them: an
\* attribute the model lacks raises AttributeError, a surplus positional
\* argument TypeError.
CreateInstanceCallError(instance_req) ==
    IF \E i \in 1..Len(CreateInstanceArguments) : CreateInstanceArguments[i] \notin DOMAIN instance_req
    THEN "AttributeError"
    ELSE IF Len(CreateInstanceArguments) # Len(CreateInstanceParameters)
    THEN "TypeError"
    ELSE "none"

\* The JSON bodies POST /create-instance is sent.
CreateBodies ==
    {[ami_id |-> AmiId, min_count |-> n, max_count |-> n, create_key_pair |-> k.create_key_pair,
      key_name |-> k.key_name, create_security_group |-> sg, security_group_name |-> "web",
      security_group_description |-> "first", security_group_rules |-> IF sg THEN <<Ssh>> ELSE <<>>] :
        n \in 1..MaxCountArg, sg \in BOOLEAN,
        k \in {[create_key_pair |-> FALSE, key_name |-> "None"],
               [create_key_pair |-> TRUE, key_name |-> "k1"]}}

\* POST /create-instance: the arguments are read off the request and
\* create_instance is called with them; when that call cannot be made the
\* exception leaves the endpoint.
ApiCreateInstance ==
    /\ pc = "idle"
    /\ Len(ops) < MaxHttpRequests
    /\ ~DirectCaller
    /\ \E body \in CreateBodies :
         LET instance_req == ParseInstanceRequest(body)
             error == CreateInstanceCallError(instance_req)
         IN  /\ op' = [name |-> "api_create_instance", body |-> body]
             /\ IF error # "none"
                THEN /\ result' = EndpointResponse("api_create_instance", Raised(Exc(error)))
                     /\ pc' = "done"
                     /\ UNCHANGED <<loc, kp>>
                ELSE /\ loc' = [key_name |-> instance_req.key_name,
                                params |-> LaunchParams(instance_req.ami_id, instance_req.min_count,
                                                        instance_req.max_count)]
                     /\ kp' = IF instance_req.create_key_pair THEN [key_name |-> instance_req.key_name] ELSE kp
                     /\ pc' = IF instance_req.create_key_pair THEN "describe_key_pairs" ELSE "run_instances"
                     /\ UNCHANGED result
    /\ clients' = Append(clients, YieldedClient)
    /\ UNCHANGED <<provider, dr, calls, sleeps, ops, other>>

\* DELETE /terminate-instance: terminate_instance is called with the body's ids.
ApiTerminateInstance ==
    /\ pc = "idle"
    /\ Len(ops) < MaxHttpRequests
    /\ ~DirectCaller
    /\ \E ids \in InstanceIdLists :
         /\ op' = [name |-> "api_terminate_instance", body |-> [instance_ids |-> ids]]
         /\ loc' = [instance_ids |-> ids]
    /\ pc' = "terminate_instances"
    /\ clients' = Append(clients, YieldedClient)
    /\ UNCHANGED <<provider, dr, kp, result, calls, sleeps, ops, other>>

\* get_ec2_client raises before it yields (the profile is unknown, the
\* client cannot be entered): there is no client, the endpoint is not run and
\* the request is answered with the dependency's 500.
GetEc2ClientFails ==
    /\ pc = "idle"
    /\ Len(ops) < MaxHttpRequests
    /\ ~DirectCaller
    /\ op' = [name |-> "get_ec2_client"]
    /\ result' = ClientFailureResponse
    /\ pc' = "done"
    /\ UNCHANGED <<provider, loc, dr, kp, calls, sleeps, ops, clients, other>>

\* The exit code of get_ec2_client, run when the endpoint has ended: the
\* "async with" block is left, by the generator being resumed or by the
\* endpoint's exception being thrown into it, and the client is closed.  An
\* exception thrown in is caught by "except Exception" and raised again as
\* the 500 of the dependency when the framework throws it in, and leaves the
\* endpoint's own answer when the framework does not.
ReleaseEc2Client ==
    /\ pc = "done"
    /\ op.name \in Endpoints
    /\ clients # <<>>
    /\ clients[Len(clients)].state = "open"
    /\ clients' = [clients EXCEPT ![Len(clients)] = ClientAfterExit(@)]
    /\ result' \in (IF result.val.status_code = 200 THEN {result} ELSE {result, ClientFailureResponse})
    /\ UNCHANGED <<provider, pc, op, loc, dr, kp, calls, sleeps, ops, other>>

(* --------------------------- request thread --------------------------- *)

\* The operation has ended: record it and take the next request.
Finish ==
    /\ pc = "done"
    /\ \A k \in 1..Len(clients) : clients[k].state # "open"
    /\ ops' = Append(ops, [op |-> op, result |-> result, mutations |-> Mutations])
    /\ pc' = "idle"
    /\ op' = [name |-> "none"]
    /\ loc' = [none |-> TRUE]
    /\ dr' = [none |-> TRUE]
    /\ kp' = [none |-> TRUE]
    /\ result' = NoResult
    /\ calls' = <<>>
    /\ sleeps' = <<>>
    /\ UNCHANGED <<provider, clients, other>>

(* ------------------------- concurrent requests ------------------------ *)

\* What a coroutine keeps while it is suspended: its position and locals.
IdleFrame ==
    [pc |-> "idle", op |-> [name |-> "none"], loc |-> [none |-> TRUE], dr |-> [none |-> TRUE],
     kp |-> [none |-> TRUE], result |-> NoResult, calls |-> <<>>, sleeps |-> <<>>]
RunningFrame ==
    [pc |-> pc, op |-> op, loc |-> loc, dr |-> dr, kp |-> kp, result |-> result,
     calls |-> calls, sleeps |-> sleeps]

\* Every provider call is awaited, and an await hands control to the event
\* loop: nothing holds the loop between the listing and the create call.
MaySwitchLocked(position) == position \notin {"csg_create", "create_key_pair"}
MaySwitch(position) == TRUE

\* The event loop suspends the running request at its await and resumes the
\* other one.
Switch ==
    /\ MaySwitch(pc)
    /\ other' = RunningFrame
    /\ pc' = other.pc
    /\ op' = other.op
    /\ loc' = other.loc
    /\ dr' = other.dr
    /\ kp' = other.kp
    /\ result' = other.result
    /\ calls' = other.calls
    /\ sleeps' = other.sleeps
    /\ UNCHANGED <<provider, ops, clients>>

(* ------------------------------ initial ------------------------------- *)

\* An instance as the provider holds it.
InstanceStates == {"none", "pending", "running", "shutting-down", "terminated"}

ThreadInit ==
    /\ pc = "idle"
    /\ op = [name |-> "none"]
    /\ loc = [none |-> TRUE]
    /\ dr = [none |-> TRUE]
    /\ kp = [none |-> TRUE]
    /\ result = NoResult
    /\ calls = <<>>
    /\ sleeps = <<>>
    /\ ops = <<>>
    /\ clients = <<>>
    /\ other = IdleFrame

\* The describer, called directly or by attach_security_group, against an
\* account in which each instance exists or not, with the default group and
\* possibly with the account's other group already attached.
InitRetry ==
    /\ keyPairs = {}
    /\ secGroups \in {<<>>, << [GroupName |-> "web", GroupId |-> GroupIdPool[1],
                                Description |-> "first", IpPermissions |-> <<>>] >>}
    /\ instances \in [InstanceIds -> {[state |-> "none", groups |-> <<>>],
                                       [state |-> "pending", groups |-> <<DefaultGroupId>>],
                                       [state |-> "running", groups |-> <<GroupIdPool[1], DefaultGroupId>>]}]
    /\ \A i \in InstanceIds : Range(instances[i].groups) \subseteq GroupIdsInUse
    /\ files = [f \in {} |-> f]
    /\ ThreadInit

NextRetry ==
    \/ CallDescriber \/ Describer
    \/ CallAttachSecurityGroup \/ AttachSecurityGroup

SpecRetry == InitRetry /\ [][NextRetry]_vars

\* create_keypair alone, called up to MaxOps times in a row, against an
\* account that may already hold key pairs (and a disk that holds their files).
InitKey ==
    /\ keyPairs \in SUBSET KeyNames
    /\ secGroups = <<>>
    /\ instances = [i \in InstanceIds |-> [state |-> "none", groups |-> <<>>]]
    /\ \E held \in SUBSET keyPairs :
         files = [f \in {PemFile(k) : k \in held} |-> [content |-> KeyMaterial(f[1]), mode |-> OwnerReadOnly]]
    /\ ThreadInit

NextKey == CallCreateKeypair \/ Keypair \/ Finish

SpecKey == InitKey /\ [][NextKey]_vars

\* The groups an account can hold before the first request: none, or one of
\* the names with some rules.
InitialGroups ==
    {<<>>} \cup
    {<< [GroupName |-> n, GroupId |-> GroupIdPool[1], Description |-> "first", IpPermissions |-> r] >> :
        n \in GroupNames, r \in RuleLists \cup {<<>>}}

\* The security-group functions, called up to MaxOps times in a row.
InitSG ==
    /\ keyPairs = {}
    /\ secGroups \in InitialGroups
    /\ instances = [i \in InstanceIds |-> [state |-> "none", groups |-> <<>>]]
    /\ files = [f \in {} |-> f]
    /\ ThreadInit

NextSG ==
    \/ CallCreateSecurityGroup \/ CreateSecurityGroup
    \/ CallAuthorizeIngress \/ AuthorizeIngress
    \/ Finish

SpecSG == InitSG /\ [][NextSG]_vars


\* Two concurrent requests, each one call of create_security_group or of
\* create_keypair, against an account that holds neither groups nor key pairs.
InitRace ==
    /\ keyPairs = {}
    /\ secGroups = <<>>
    /\ instances = [i \in InstanceIds |-> [state |-> "none", groups |-> <<>>]]
    /\ files = [f \in {} |-> f]
    /\ ThreadInit

NextRace ==
    \/ CallCreateSecurityGroup \/ CreateSecurityGroup
    \/ CallCreateKeypair \/ Keypair
    \/ Switch

SpecRace == InitRace /\ [][NextRace]_vars

\* The orchestrator and the endpoints, against an account that may already
\* hold the key pair and running instances.
Init ==
    /\ keyPairs \in SUBSET {"k1"}
    /\ secGroups = <<>>
    /\ instances \in [InstanceIds -> {[state |-> "none", groups |-> <<>>],
                                       [state |-> "running", groups |-> <<DefaultGroupId>>]}]
    /\ files = [f \in {PemFile(k) : k \in keyPairs} |-> [content |-> KeyMaterial(f[1]), mode |-> OwnerReadOnly]]
    /\ ThreadInit

\* The run explored here takes MaxRequests requests, direct or HTTP.
Next ==
    \/ CallCreateInstance \/ Keypair \/ CreateInstance
    \/ CallTerminateInstance \/ TerminateInstance
    \/ (Len(ops) < MaxRequests /\ ApiCreateInstance)
    \/ (Len(ops) < MaxRequests /\ ApiTerminateInstance)
    \/ (Len(ops) < MaxRequests /\ GetEc2ClientFails)
    \/ ReleaseEc2Client
    \/ InstanceProgress
    \/ Finish

Spec == Init /\ [][Next]_vars

\* The requests of the HTTP boundary alone, served one after the other, each
\* with the client get_ec2_client yields it.  The event loop keeps running a
\* request that can take a step: a provider call returns or raises, a waiter
\* completes or gives up, the exit code of the dependency runs.
RequestStep ==
    \/ ApiCreateInstance \/ ApiTerminateInstance
    \/ GetEc2ClientFails \/ ReleaseEc2Client
    \/ TerminateInstance
    \/ Finish

NextClient == RequestStep \/ InstanceProgress

SpecClient == Init /\ [][NextClient]_vars /\ WF_vars(RequestStep)

(* ======================= Retrying Describer claims ===================== *)

RECURSIVE Pow2(_)
Pow2(k) == IF k <= 0 THEN 1 ELSE 2 * Pow2(k - 1)

DirectDescribe == op.name = "describe_instances_with_retry"
LastCall == calls[Len(calls)]
\* The error the except clause of the describer saw for a logged failed attempt.
LoggedError(c) == IF c.out.kind = "raise" THEN c.out.exc ELSE Exc("ValueError")

\* C4: Retrying Describer, success path.  When attempt N (N <= max_attempts)
\* is the first to yield instance data, the describer has ended returning
\* exactly that response, N describe calls were made (none follows the valid
\* one), and N-1 sleeps were taken, the k-th lasting initial_delay * 2^(k-1).
C4_SuccessPath ==
    (DirectDescribe /\ Len(calls) >= 1 /\ LastCall.out.kind = "return")
    => /\ Len(calls) <= op.max_attempts
       /\ \A i \in 1..(Len(calls) - 1) : calls[i].out.kind # "return"
       /\ \A i \in 1..Len(calls) : calls[i].api = "describe_instances"
       /\ pc = "done"
       /\ result = Returned(LastCall.out.val)
       /\ HasInstanceData(result.val)
       /\ Len(sleeps) = Len(calls) - 1
       /\ \A k \in 1..Len(sleeps) : sleeps[k] = op.initial_delay * Pow2(k - 1)

\* C4 witness: the data arrives on the fourth attempt, after three sleeps.
C4_Witness ==
    /\ DirectDescribe /\ pc = "done" /\ result.kind = "return"
    /\ op.initial_delay = 2
    /\ Len(calls) = 4 /\ LastCall.out.kind = "return"
    /\ sleeps = <<2, 4, 8>>

\* C5: Retrying Describer, exhaustion path.  With max_attempts >= 1 and no
\* attempt yielding instance data, the describer makes max_attempts describe
\* calls and no more, ends exactly when the last one has failed, has slept
\* only between attempts (max_attempts - 1 times), and raises the error of
\* the last attempt.
C5_Exhaustion ==
    (DirectDescribe /\ op.max_attempts >= 1 /\ \A i \in 1..Len(calls) : calls[i].out.kind # "return")
    => /\ Len(calls) <= op.max_attempts
       /\ \A i \in 1..Len(calls) : calls[i].api = "describe_instances"
       /\ (pc = "done") <=> (Len(calls) = op.max_attempts)
       /\ pc = "done" => /\ result = Raised(LoggedError(LastCall))
                         /\ Len(sleeps) = op.max_attempts - 1
       /\ pc # "done" => pc = "describe" /\ Len(sleeps) = Len(calls)

\* C5 witness: five failed attempts, the last one a provider error, which is
\* the error raised; four sleeps.
C5_Witness ==
    /\ DirectDescribe /\ pc = "done" /\ op.max_attempts = 5
    /\ Len(calls) = 5 /\ Len(sleeps) = 4
    /\ calls[4].out.kind = "nodata"
    /\ result = Raised(Exc("ClientError"))

\* The describer handed this outcome to its caller after a describe call that
\* returned a response with instance data, and the outcome is that response.
HandsOverData(res) ==
    /\ Len(calls) >= 1
    /\ LastCall.api = "describe_instances"
    /\ LastCall.out.kind = "return"
    /\ res = Returned(LastCall.out.val)
    /\ HasInstanceData(res.val)

\* C21: describe_instances_with_retry either returns a response with at
\* least one reservation whose first entry has at least one instance, or
\* raises an error; it never completes normally without such a response, for
\* every value of max_attempts, 0 and negative values included.  Stated where
\* the describer hands over its outcome: to a direct caller, and to
\* attach_security_group.
C21_DescriberDataOrRaise ==
    /\ (DirectDescribe /\ pc = "done")
       => (result.kind = "raise" \/ HandsOverData(result))
    /\ (op.name = "attach_security_group" /\ pc = "attach_described")
       => (loc.described.kind = "raise" \/ HandsOverData(loc.described))

(* ===================== Key Pair Provisioner claims ==================== *)

\* The calls of a finished operation to one API.
CountOf(o, api) == Cardinality({i \in 1..Len(o.mutations) : o.mutations[i].api = api})

\* C7: key-pair idempotence.  Of two create_keypair calls with the same name,
\* one after the other, the first starting with the name absent and returning:
\* the first made one create_key_pair call and one write of {name}.pem and
\* returned the name; the second made no mutating call and no write, and ends
\* returning the name unless its listing call failed.
C7_KeypairIdempotent ==
    \A i, j \in 1..Len(ops) :
        (/\ i < j
         /\ ops[i].op.name = "create_keypair" /\ ops[j].op.name = "create_keypair"
         /\ ops[i].op.key_name = ops[j].op.key_name
         /\ ops[i].op.key_name \notin ops[i].op.registered
         /\ ops[i].result.kind = "return")
        => /\ CountOf(ops[i], "create_key_pair") = 1
           /\ CountOf(ops[i], "write_file") = 1
           /\ \E k \in 1..Len(ops[i].mutations) :
                  /\ ops[i].mutations[k].api = "write_file"
                  /\ ops[i].mutations[k].arg = PemFile(ops[i].op.key_name)
           /\ ops[i].result = Returned(ops[i].op.key_name)
           /\ ops[j].mutations = <<>>
           /\ ops[j].result.kind = "return" => ops[j].result = Returned(ops[j].op.key_name)
           /\ ops[j].result.kind = "raise" => ops[j].result.exc.type \in ProviderErrors

\* C7 witness: two calls for the same absent name have both returned it, the
\* first having created the key pair, the second having changed nothing.
C7_Witness ==
    /\ Len(ops) = 2
    /\ ops[1].op.name = "create_keypair" /\ ops[2].op.name = "create_keypair"
    /\ ops[1].op.key_name = "k1" /\ ops[2].op.key_name = "k1"
    /\ "k1" \notin ops[1].op.registered
    /\ ops[1].result = Returned("k1") /\ ops[2].result = Returned("k1")
    /\ CountOf(ops[1], "create_key_pair") = 1
    /\ ops[2].mutations = <<>>

(* ================== Security Group Provisioner claims ================= *)

\* The group of a snapshot with the given id has exactly the given rule list.
RulesPresent(groups, group_id, ip_permissions) ==
    \E i \in 1..Len(groups) : groups[i].GroupId = group_id /\ groups[i].IpPermissions = ip_permissions

AuthorizeCalls == CallsOf("authorize_security_group_ingress")

\* C6: authorize_ingress makes no authorize_security_group_ingress call, and
\* returns the group's existing rule list, when the requested rule list is
\* already the rule list of the group; in every other case a call that
\* returns has made exactly one authorize_security_group_ingress call.
C6_AuthorizeOnlyWhenMissing ==
    op.name = "authorize_ingress"
    => IF RulesPresent(op.existing, op.group_id, op.ip_permissions)
       THEN /\ AuthorizeCalls = {}
            /\ (pc = "done" /\ result.kind = "return") => result.val = op.ip_permissions
       ELSE (pc = "done" /\ result.kind = "return") => Cardinality(AuthorizeCalls) = 1

\* C8: security-group idempotence.  Of two create_security_group calls with
\* the same name, one after the other, the first starting with the name absent
\* and returning: the first made one create_security_group call; the second
\* made none, and when it returns it returns the first call's group id; the
\* group keeps the description the first call gave it.
C8_GroupIdempotent ==
    \A i, j \in 1..Len(ops) :
        (/\ i < j
         /\ ops[i].op.name = "create_security_group" /\ ops[j].op.name = "create_security_group"
         /\ ops[i].op.group_name = ops[j].op.group_name
         /\ \A k \in 1..Len(ops[i].op.existing) : ops[i].op.existing[k].GroupName # ops[i].op.group_name
         /\ ops[i].result.kind = "return")
        => /\ CountOf(ops[i], "create_security_group") = 1
           /\ CountOf(ops[j], "create_security_group") = 0
           /\ ops[j].result.kind = "return" => ops[j].result = ops[i].result
           /\ ops[j].result.kind = "raise" => ops[j].result.exc.type = "HTTPException"
           /\ Cardinality({k \in 1..Len(secGroups) : secGroups[k].GroupName = ops[i].op.group_name}) = 1
           /\ \A k \in 1..Len(secGroups) :
                  secGroups[k].GroupName = ops[i].op.group_name
                  => /\ secGroups[k].GroupId = ops[i].result.val
                     /\ secGroups[k].Description = ops[i].op.group_description

\* C8 witness: the second call, made with another description, has returned
\* the id the first call created.
C8_Witness ==
    /\ Len(ops) = 2
    /\ ops[1].op.name = "create_security_group" /\ ops[2].op.name = "create_security_group"
    /\ ops[1].op.group_name = "web" /\ ops[2].op.group_name = "web"
    /\ ops[1].op.existing = <<>>
    /\ ops[1].op.group_description = "first" /\ ops[2].op.group_description = "second"
    /\ CountOf(ops[1], "create_security_group") = 1
    /\ ops[1].result.kind = "return" /\ ops[2].result = ops[1].result
    /\ secGroups[1].Description = "first"

(* ===================== Instance Orchestrator claims =================== *)

NoCallRaised == \A i \in 1..Len(calls) : calls[i].out.kind # "raise"

\* C1: when POST /create-instance asks for a security group with a rule
\* list and every provider call succeeds, then once the request is done a
\* group of the requested name exists with exactly the requested ingress
\* rules, instances were launched, and every launched instance has that group
\* attached.
C1_GroupAttachedToLaunched ==
    (/\ pc = "done" /\ op.name = "api_create_instance"
     /\ op.body.create_security_group /\ op.body.security_group_rules # <<>>
     /\ NoCallRaised)
    => \E g \in 1..Len(secGroups) :
          /\ secGroups[g].GroupName = op.body.security_group_name
          /\ secGroups[g].IpPermissions = op.body.security_group_rules
          /\ CallsOf("run_instances") # {}
          /\ \A i \in CallsOf("run_instances") :
                 \A k \in 1..Len(calls[i].out.val.Instances) :
                    secGroups[g].GroupId \in Range(instances[calls[i].out.val.Instances[k].InstanceId].groups)

\* C2: POST /create-instance with a well-formed body, every provider call
\* succeeding, answers 200 with the instance ids of the launch response and
\* the status "running".
C2_CreateEndpointResponds ==
    (pc = "done" /\ op.name = "api_create_instance" /\ NoCallRaised)
    => \E i \in CallsOf("run_instances") :
          result = Returned([status_code |-> 200,
                             instance_ids |-> [k \in 1..Len(calls[i].out.val.Instances) |->
                                                 calls[i].out.val.Instances[k].InstanceId],
                             status |-> "running"])

TerminateOp == op.name \in {"terminate_instance", "api_terminate_instance"}
GivenIds == IF op.name = "terminate_instance" THEN op.instance_ids ELSE op.body.instance_ids

\* C9: terminate_instance waits only after terminate_instances has been
\* submitted for the given ids and has succeeded; it returns only after the
\* "terminated" waiter has completed, every given instance terminated; and it
\* returns the list it was given, same elements in the same order, whatever
\* the provider reported as terminating.
C9_TerminateThenWait ==
    TerminateOp
    => /\ (pc = "wait_terminated" \/ CallsOf("wait_instance_terminated") # {})
          => /\ calls[1].api = "terminate_instances"
             /\ calls[1].arg = GivenIds
             /\ calls[1].out.kind = "return"
             /\ \A i \in CallsOf("wait_instance_terminated") : i = 2 /\ calls[i].arg = GivenIds
       /\ (pc = "done" /\ op.name = "terminate_instance" /\ result.kind = "return")
          => /\ result = Returned(GivenIds)
             /\ Len(calls) = 2 /\ calls[2].api = "wait_instance_terminated" /\ calls[2].out.kind = "return"
             /\ \A k \in 1..Len(GivenIds) : instances[GivenIds[k]].state = "terminated"
       /\ (pc = "done" /\ op.name = "api_terminate_instance" /\ result.val.status_code = 200)
          => /\ result = Returned([status_code |-> 200, instance_ids |-> GivenIds, status |-> "terminated"])
             /\ Len(calls) = 2 /\ calls[2].api = "wait_instance_terminated" /\ calls[2].out.kind = "return"
             /\ \A k \in 1..Len(GivenIds) : instances[GivenIds[k]].state = "terminated"

\* C9 witness: terminate_instance(["i-2", "i-1"]) has returned ["i-2", "i-1"],
\* both terminated, the provider having reported them in another order.
C9_Witness ==
    /\ pc = "done" /\ op.name = "terminate_instance"
    /\ op.instance_ids = <<"i-2", "i-1">>
    /\ result = Returned(<<"i-2", "i-1">>)
    /\ calls[1].out.val.TerminatingInstances = <<"i-1", "i-2">>
    /\ instances["i-1"].state = "terminated" /\ instances["i-2"].state = "terminated"

\* C10: a create_instance call with min_count = max_count = n >= 1 that
\* returns, returns n ids, each non-empty, distinct, and exactly the ids of
\* the one launch response in its order.
C10_LaunchedIdsReturned ==
    (/\ pc = "done" /\ op.name = "create_instance"
     /\ op.min_count = op.max_count /\ op.min_count >= 1
     /\ result.kind = "return")
    => /\ Len(result.val) = op.max_count
       /\ \A k \in 1..Len(result.val) : result.val[k] # ""
       /\ \A k, l \in 1..Len(result.val) : k # l => result.val[k] # result.val[l]
       /\ Cardinality(CallsOf("run_instances")) = 1
       /\ \A i \in CallsOf("run_instances") :
              /\ calls[i].arg.MinCount = op.min_count /\ calls[i].arg.MaxCount = op.max_count
              /\ Len(calls[i].out.val.Instances) = Len(result.val)
              /\ \A k \in 1..Len(result.val) : result.val[k] = calls[i].out.val.Instances[k].InstanceId

\* C10 witness: create_instance with min_count = max_count = 2 has returned
\* the two launched ids, the launch response listing "i-2" first.
C10_Witness ==
    /\ pc = "done" /\ op.name = "create_instance"
    /\ op.min_count = 2 /\ op.max_count = 2 /\ op.create_key_pair
    /\ result = Returned(<<"i-2", "i-1">>)
    /\ instances["i-1"].state = "running" /\ instances["i-2"].state = "running"

\* C11: every run_instances call create_instance issues carries launch
\* parameters with 1 <= MinCount <= MaxCount.
C11_LaunchCountsOrdered ==
    \A i \in CallsOf("run_instances") :
       /\ 1 <= calls[i].arg.MinCount
       /\ calls[i].arg.MinCount <= calls[i].arg.MaxCount

KeyPairApis == {"describe_key_pairs", "create_key_pair", "write_file", "chmod"}

\* The i-th call of the running operation is a call of api that returned.
ReturnedCall(i, api) == i <= Len(calls) /\ calls[i].api = api /\ calls[i].out.kind = "return"

\* C14: in create_instance, when a key pair is requested the launch comes
\* after the key pair was ensured (listed and found, or listed, created,
\* written to its file and made read-only) and carries its name as KeyName;
\* when none is requested no key-pair call is made and the launch carries no
\* KeyName; the "running" waiter comes right after a launch that returned,
\* for the ids of its response, and the ids are returned only once the waiter
\* has completed.
C14_CreateInstanceOrder ==
    op.name = "create_instance"
    => /\ \A i \in CallsOf("run_instances") :
             IF op.create_key_pair
             THEN /\ ReturnedCall(1, "describe_key_pairs")
                  /\ "KeyName" \in DOMAIN calls[i].arg
                  /\ calls[i].arg.KeyName = op.key_name
                  /\ op.key_name \in keyPairs
                  /\ IF KeyMissing(op.key_name, calls[1].out.val)
                     THEN /\ i = 5
                          /\ ReturnedCall(2, "create_key_pair") /\ calls[2].arg = op.key_name
                          /\ ReturnedCall(3, "write_file") /\ calls[3].arg = PemFile(op.key_name)
                          /\ ReturnedCall(4, "chmod")
                     ELSE i = 2
             ELSE /\ i = 1
                  /\ "KeyName" \notin DOMAIN calls[i].arg
       /\ ~op.create_key_pair => \A i \in 1..Len(calls) : calls[i].api \notin KeyPairApis
       /\ pc = "wait_running" => ReturnedCall(Len(calls), "run_instances")
       /\ \A j \in CallsOf("wait_instance_running") :
             /\ j > 1 /\ j = Len(calls)
             /\ ReturnedCall(j - 1, "run_instances")
             /\ calls[j].arg = [k \in 1..Len(calls[j - 1].out.val.Instances) |->
                                   calls[j - 1].out.val.Instances[k].InstanceId]
       /\ (pc = "done" /\ result.kind = "return")
             => /\ ReturnedCall(Len(calls), "wait_instance_running")
                /\ result.val = calls[Len(calls)].arg

\* C14 witness: create_instance with a key pair that was absent has returned
\* after describe_key_pairs, create_key_pair, the write, the chmod, the
\* launch and the waiter, in this order.
C14_Witness ==
    /\ pc = "done" /\ op.name = "create_instance" /\ op.create_key_pair /\ op.key_name = "k1"
    /\ result.kind = "return"
    /\ Len(calls) = 6
    /\ calls[2].api = "create_key_pair" /\ calls[5].api = "run_instances"
    /\ calls[5].arg.KeyName = "k1"
    /\ calls[6].api = "wait_instance_running"

(* ==================== Key Pair Provisioner claims ===================== *)

\* C18: when create_keypair returns having created the key pair, the file
\* {name}.pem holds the key material of the provider's response and has mode
\* 0400; when it returns having found the key pair, it has written no file
\* and changed no mode.
C18_KeyFileBeforeReturn ==
    (op.name = "create_keypair" /\ pc = "done" /\ result.kind = "return")
    => /\ result.val = op.key_name
       /\ IF CallsOf("create_key_pair") # {}
          THEN /\ Len(calls) = 4
               /\ ReturnedCall(2, "create_key_pair")
               /\ ReturnedCall(3, "write_file") /\ ReturnedCall(4, "chmod")
               /\ PemFile(op.key_name) \in DOMAIN files
               /\ files[PemFile(op.key_name)].content = calls[2].out.val.KeyMaterial
               /\ files[PemFile(op.key_name)].mode = 256
               /\ op.key_name \notin op.registered
          ELSE /\ CallsOf("write_file") = {} /\ CallsOf("chmod") = {}
               /\ Len(calls) = 1
               /\ op.key_name \in op.registered

\* C18 witness: create_keypair("k1") has returned having created the key
\* pair; k1.pem holds the key and is read-only for its owner.
C18_Witness ==
    /\ op.name = "create_keypair" /\ pc = "done" /\ result = Returned("k1")
    /\ "k1" \notin op.registered
    /\ files[PemFile("k1")] = [content |-> KeyMaterial("k1"), mode |-> OwnerReadOnly]

\* The same on the reuse path: no file for k1 existed and none exists.
C18_WitnessReuse ==
    /\ op.name = "create_keypair" /\ pc = "done" /\ result = Returned("k1")
    /\ "k1" \in op.registered
    /\ PemFile("k1") \notin DOMAIN files

\* A finished create_keypair call that failed after the provider had created
\* the key pair: the write or the chmod raised.
PartialFailure(o) ==
    /\ o.op.name = "create_keypair"
    /\ o.result.kind = "raise"
    /\ \E i \in 1..Len(o.mutations) :
          o.mutations[i].api = "create_key_pair" /\ o.mutations[i].out.kind = "return"

\* The write of a finished call failed.
WriteFailed(o) ==
    \E i \in 1..Len(o.mutations) : o.mutations[i].api = "write_file" /\ o.mutations[i].out.kind = "raise"

\* C19: after a create_keypair call that failed once the provider had created
\* the key pair, the key pair stays registered; every later create_keypair
\* call with that name creates nothing, writes nothing and changes no mode,
\* and returns the name when its listing succeeds; the file {name}.pem stays
\* as the failed call left it: without the key when the write failed, and
\* never both holding the key and read-only.
C19_NoRollback ==
    \A j \in 1..Len(ops) :
       PartialFailure(ops[j])
       => LET key == ops[j].op.key_name
          IN  /\ key \in keyPairs
              /\ \A l \in (j + 1)..Len(ops) :
                    (ops[l].op.name = "create_keypair" /\ ops[l].op.key_name = key)
                    => /\ ops[l].mutations = <<>>
                       /\ ops[l].result.kind = "return" => ops[l].result.val = key
              /\ (op.name = "create_keypair" /\ op.key_name = key)
                    => /\ Mutations = <<>>
                       /\ pc # "create_key_pair"
                       /\ (pc = "done" /\ result.kind = "return") => (result.val = key /\ Len(calls) = 1)
              /\ PemFile(key) \in DOMAIN files
                    => /\ files[PemFile(key)] # [content |-> KeyMaterial(key), mode |-> 256]
                       /\ WriteFailed(ops[j]) => files[PemFile(key)].content # KeyMaterial(key)

\* C19 witness: create_keypair("k1") failed on the write after the provider
\* had created k1, leaving an empty k1.pem; a second create_keypair("k1")
\* found the name, returned it and wrote nothing.
C19_Witness ==
    /\ Len(ops) = 2
    /\ PartialFailure(ops[1]) /\ WriteFailed(ops[1]) /\ ops[1].op.key_name = "k1"
    /\ ops[2].op.name = "create_keypair" /\ ops[2].op.key_name = "k1"
    /\ ops[2].result = Returned("k1") /\ ops[2].mutations = <<>>
    /\ "k1" \in keyPairs
    /\ PemFile("k1") \in DOMAIN files /\ files[PemFile("k1")].content = <<>>

(* ==================== Security Group Manager claims ================== *)

ModifyCalls == CallsOf("modify_instance_attribute")

\* The group ids a describe_instances response reports for its first instance.
DescribedGroups(response) ==
    [k \in 1..Len(response.Reservations[1].Instances[1].SecurityGroups) |->
        response.Reservations[1].Instances[1].SecurityGroups[k].GroupId]

Occurrences(seq, x) == Cardinality({k \in 1..Len(seq) : seq[k] = x})

\* C15: attach_security_group submits at most one replacement of the
\* instance's group list, exactly one once the describer returned the
\* instance; the list submitted is the described list, in its order, followed
\* by group_id if and only if group_id was not in it, so that nothing is
\* dropped and group_id is not added a second time.
C15_AttachAppendsOnce ==
    op.name = "attach_security_group"
    => /\ Cardinality(ModifyCalls) <= 1
       /\ \A i \in ModifyCalls :
             /\ i = Len(calls) /\ i > 1
             /\ calls[i - 1].api = "describe_instances" /\ calls[i - 1].out.kind = "return"
             /\ calls[i].arg.InstanceId = op.instance_id
             /\ LET had == DescribedGroups(calls[i - 1].out.val)
                    sent == calls[i].arg.Groups
                IN  /\ had = op.attached
                    /\ Len(sent) >= Len(had)
                    /\ \A k \in 1..Len(had) : sent[k] = had[k]
                    /\ Len(sent) = Len(had) + (IF op.group_id \in Range(had) THEN 0 ELSE 1)
                    /\ op.group_id \in Range(sent)
                    /\ Occurrences(sent, op.group_id) = (IF op.group_id \in Range(had)
                                                          THEN Occurrences(had, op.group_id) ELSE 1)
                    /\ (pc = "done" /\ result.kind = "return") => instances[op.instance_id].groups = sent
       /\ (pc = "done" /\ \E j \in CallsOf("describe_instances") : calls[j].out.kind = "return")
             => Cardinality(ModifyCalls) = 1
       /\ (pc = "done" /\ result.kind = "return") => Cardinality(ModifyCalls) = 1

\* C15 witness: attaching sg-1 to an instance that had only the default group
\* has returned, the list submitted being the default group then sg-1.
C15_Witness ==
    /\ pc = "done" /\ op.name = "attach_security_group" /\ result.kind = "return"
    /\ op.group_id = GroupIdPool[1] /\ op.attached = <<DefaultGroupId>>
    /\ calls[Len(calls)].arg.Groups = <<DefaultGroupId, GroupIdPool[1]>>
    /\ instances[op.instance_id].groups = <<DefaultGroupId, GroupIdPool[1]>>

\* The same when the group is already attached: the list is submitted as it was.
C15_WitnessAlreadyAttached ==
    /\ pc = "done" /\ op.name = "attach_security_group" /\ result.kind = "return"
    /\ op.group_id = DefaultGroupId /\ op.attached = <<GroupIdPool[1], DefaultGroupId>>
    /\ calls[Len(calls)].arg.Groups = <<GroupIdPool[1], DefaultGroupId>>

\* The account held no group of the given id when authorize_ingress was called.
GroupUnknown == \A i \in 1..Len(op.existing) : op.existing[i].GroupId # op.group_id

\* C16: authorize_ingress called with a group_id the provider does not hold
\* does not stop at the listing: once the listing returned, its next call is
\* authorize_security_group_ingress for that group_id and the requested
\* rules, and it ends as that call ends: with the error of the call, mapped by
\* the except clauses, or, were the call to return, with its response (after
\* the second listing).
C16_UnknownGroupStillAuthorized ==
    (op.name = "authorize_ingress" /\ GroupUnknown)
    => /\ pc = "done" => Len(calls) >= 1
       /\ (Len(calls) >= 1 /\ calls[1].out.kind = "return")
             => \/ pc = "authz_authorize" /\ Len(calls) = 1
                \/ /\ Len(calls) >= 2
                   /\ calls[2].api = "authorize_security_group_ingress"
                   /\ calls[2].arg = [GroupId |-> op.group_id, IpPermissions |-> op.ip_permissions]
       /\ (pc = "done" /\ Len(calls) >= 2 /\ calls[2].out.kind = "raise")
             => Len(calls) = 2 /\ result = Raised(MapError(calls[2].out.exc))
       /\ (pc = "done" /\ result.kind = "return")
             => Len(calls) = 3 /\ calls[2].out.kind = "return" /\ result.val = calls[2].out.val

\* C16 witness: authorize_ingress for a group id the account does not hold
\* has listed the groups, called authorize_security_group_ingress, been
\* refused by the provider, and ended with the mapped client error.
C16_Witness ==
    /\ pc = "done" /\ op.name = "authorize_ingress" /\ GroupUnknown
    /\ Len(calls) = 2
    /\ calls[2].api = "authorize_security_group_ingress"
    /\ calls[2].arg.GroupId = op.group_id
    /\ calls[2].out = Raised(Exc("ClientError"))
    /\ result = Raised(HTTPException(400, "AWS client error"))

\* The running operation has ended with an error its caller sees.
ErrorSurfaced ==
    /\ pc = "done"
    /\ IF op.name \in Endpoints
       THEN result.kind = "return" /\ result.val.status_code \in {400, 500}
       ELSE result.kind = "raise" /\ result.exc.type = "HTTPException"

\* C17: in create_instance and terminate_instance (called directly or by
\* their endpoints) a call that failed, of the provider or of the disk, is the
\* last call of the operation, and the operation has ended with an error.
C17_FailFast ==
    op.name \in {"create_instance", "terminate_instance", "api_create_instance", "api_terminate_instance"}
    => \A i \in 1..Len(calls) :
          calls[i].out.kind = "raise" => (i = Len(calls) /\ ErrorSurfaced)

\* C17 witness: create_instance listed the key pairs, was refused the
\* creation of the key pair and ended there with the mapped error, nothing
\* launched.
C17_Witness ==
    /\ pc = "done" /\ op.name = "create_instance"
    /\ Len(calls) = 2
    /\ calls[1].api = "describe_key_pairs" /\ calls[1].out.kind = "return"
    /\ calls[2].api = "create_key_pair" /\ calls[2].out = Raised(Exc("NoCredentialsError"))
    /\ result = Raised(HTTPException(400, "AWS credentials error"))
    /\ \A i \in InstanceIds : instances[i].state = "none"

\* The ids of the instances the running operation launched.
LaunchedIds ==
    UNION {{calls[i].out.val.Instances[k].InstanceId : k \in 1..Len(calls[i].out.val.Instances)} :
              i \in {j \in CallsOf("run_instances") : calls[j].out.kind = "return"}}

\* C20: when the launch of create_instance succeeded and the "running"
\* waiter then failed, create_instance ends with an HTTPException whose
\* detail is one of the three fixed texts (it names no instance id), has
\* issued no terminate_instances call, and the launched instances are still
\* in the account, pending or running.
C20_LaunchedInstancesLeftBehind ==
    (/\ op.name = "create_instance" /\ pc = "done"
     /\ LaunchedIds # {}
     /\ \E j \in CallsOf("wait_instance_running") : calls[j].out.kind = "raise")
    => /\ result.kind = "raise"
       /\ result.exc.type = "HTTPException"
       /\ result.exc.detail \in {"AWS credentials error", "AWS client error", "Unexpected error"}
       /\ CallsOf("terminate_instances") = {}
       /\ \A i \in LaunchedIds : instances[i].state \in {"pending", "running"}

\* C20 witness: create_instance launched two instances, the waiter gave up,
\* the call ended with the 500 error and both instances are left running or
\* pending.
C20_Witness ==
    /\ op.name = "create_instance" /\ pc = "done"
    /\ LaunchedIds = {"i-1", "i-2"}
    /\ calls[Len(calls)] = Call("wait_instance_running", <<"i-1", "i-2">>, Raised(Exc("WaiterError")))
    /\ result = Raised(HTTPException(500, "Unexpected error"))
    /\ instances["i-1"].state = "running" /\ instances["i-2"].state = "pending"

(* ========================= EC2 client claims ========================== *)

ClientOpen(k) == k <= Len(clients) /\ clients[k].state = "open"
ClientClosed(k) == k <= Len(clients) /\ clients[k].state = "closed"

\* An open client is the one of the request being served, and no two clients
\* were yielded to the same request.
ClientsScoped ==
    /\ \A k \in 1..Len(clients) :
          clients[k].state = "open" => (clients[k].request = Len(ops) + 1 /\ pc # "idle" /\ k = Len(clients))
    /\ \A j, k \in 1..Len(clients) : j # k => clients[j].request # clients[k].request

\* C12: the client a request obtained is eventually closed, whatever the
\* outcome of the request (200, a 400 or a 500); a client serves one request
\* only and no request is running while a client of an earlier one is open.
C12_ClientReleased ==
    /\ []ClientsScoped
    /\ \A k \in 1..(MaxHttpRequests + 1) : ClientOpen(k) ~> ClientClosed(k)

\* C12 witness: two requests have been served, the first answered 400 and the
\* second 200, each with its own client, both closed.
C12_Witness ==
    /\ Len(ops) = 2 /\ pc = "idle"
    /\ ops[1].result.val.status_code = 400
    /\ ops[2].result.val.status_code = 200
    /\ Len(clients) = 2
    /\ clients[1] = [request |-> 1, state |-> "closed"]
    /\ clients[2] = [request |-> 2, state |-> "closed"]

(* ======================== concurrency claims ========================== *)

\* The create calls a frame has issued for a name.
CreatesIssued(frame, api, name) ==
    {i \in 1..Len(frame.calls) : frame.calls[i].api = api /\ frame.calls[i].arg = name}

\* The create call a request issues once past the check, as the next entry
\* of its call history.
IssuesCreate(api, name) ==
    /\ Len(calls') > Len(calls)
    /\ calls'[Len(calls) + 1].api = api
    /\ calls'[Len(calls) + 1].arg = name

\* C13: check-then-create is not atomic.  A request that has passed the
\* "name does not exist" check and has not yet issued its create call can be
\* suspended there for the other request to run; and when it goes on, its
\* step is the create call for its name, without another look at the
\* provider, the other request having created that name or not.
C13_CheckThenCreateUnguarded ==
    /\ [](pc \in {"csg_create", "create_key_pair"} => ENABLED Switch)
    /\ [][(pc = "csg_create" /\ other' = other) => IssuesCreate("create_security_group", loc.group_name)]_vars
    /\ [][(pc = "create_key_pair" /\ other' = other) => IssuesCreate("create_key_pair", kp.key_name)]_vars

\* C13 witness: two concurrent create_security_group requests for the same
\* name both passed the check and both issued create_security_group for it;
\* the provider created the group for one and refused the other.
C13_Witness ==
    /\ pc = "done" /\ other.pc = "done"
    /\ op.name = "create_security_group" /\ other.op.name = "create_security_group"
    /\ op.group_name = other.op.group_name
    /\ \A frame \in {RunningFrame, other} :
          CreatesIssued(frame, "create_security_group", frame.op.group_name) # {}
    /\ result.kind = "return"
    /\ other.result = Raised(HTTPException(400, "AWS client error"))
    /\ Len(secGroups) = 1

\* The same for two concurrent create_keypair requests.
C13_WitnessKeyPair ==
    /\ pc = "done" /\ other.pc = "done"
    /\ op.name = "create_keypair" /\ other.op.name = "create_keypair"
    /\ op.key_name = other.op.key_name
    /\ \A frame \in {RunningFrame, other} :
          /\ frame.calls[1].out.kind = "return"
          /\ KeyMissing(frame.op.key_name, frame.calls[1].out.val)
          /\ CreatesIssued(frame, "create_key_pair", frame.op.key_name) # {}
    /\ result.kind = "return"
    /\ other.result.kind = "raise"

(* ========================= error handling claims ====================== *)

\* A provider call of the running operation failed for missing credentials.
CredentialsFailure ==
    \E i \in 1..Len(calls) :
        calls[i].out.kind = "raise" /\ calls[i].out.exc.type = "NoCredentialsError"

\* Every provider call of the running operation that raised, raised for
\* missing credentials.
OnlyCredentialsFailures ==
    \A i \in 1..Len(calls) :
        calls[i].out.kind = "raise" => calls[i].out.exc.type = "NoCredentialsError"

\* C3: a service operation (create_instance, terminate_instance,
\* create_security_group, authorize_ingress, attach_security_group) in which a
\* provider call failed for missing credentials, the describer's calls
\* included, fails with HTTPException(400, "AWS credentials error") and never
\* with the 500 kind.  Stated for the operations that fail and in which no
\* provider call failed for another reason, which the claim implies.
C3_CredentialsErrorKind ==
    (/\ pc = "done"
     /\ op.name \in {"create_instance", "terminate_instance", "create_security_group",
                     "authorize_ingress", "attach_security_group"}
     /\ CredentialsFailure /\ OnlyCredentialsFailures
     /\ result.kind = "raise")
    => result = Raised(HTTPException(400, "AWS credentials error"))

====
